---- MODULE Spec2Model ----
\* A model of occurrences.py: the DocumentAnalyser class (constructor,
\* find_duplicates, display_results, save_results), load_file and main.
\*
\* A text is a sequence of whitespace-separated chunks of letters.  A python
\* dict is a sequence of <<key, value>> pairs with distinct keys, in insertion
\* order (the order dict.items() iterates in).
EXTENDS Integers, Sequences, FiniteSets, TLC

\* ------------------------------------------------------------------ bounds

\* check documents of a direct call of the constructor
MaxDocs == 3
\* chunks in all the check documents of one call together
MaxWords == 5
\* ignore documents in a list
MaxIgnoreDocs == 2
\* chunks in all the ignore documents of one call together
MaxIgnoreWords == 1
\* check documents of a call that also passes ignore documents
MaxIgnoredDocs == 2
\* chunks in all the check documents of such a call together
MaxIgnoredWords == 2
\* file names on the command line
MaxArgs == 2
\* chunks in one file
MaxFileWords == 1
\* the occurrence count the callers' mincount and maxcount cut at
CutCount == 2

\* --------------------------------------------------------------- constants

DefaultMin == 1
DefaultMax == 256
\* [A-Za-z] followed by {2,60} further characters
MinTokenLen == 3
MaxTokenLen == 61
\* f'{key:<32} {value}'
ColumnWidth == 32

Words == {"cat", "dog"}
Chunks == Words \cup {"at"}
Files == {"a.txt", "b.txt"}

\* ------------------------------------------------------------------- texts

\* wordfinder.finditer(textdata): the chunks the pattern matches, in order.
\* A chunk of letters is matched whole when it has 3 to 61 characters and
\* not at all otherwise (no word boundary lies inside it).
Matches(chunk) == Len(chunk) >= MinTokenLen /\ Len(chunk) <= MaxTokenLen

wordfinder(textdata) == SelectSeq(textdata, Matches)

\* ------------------------------------------------------------------- dicts

Keys(d) == {d[i][1] : i \in 1..Len(d)}

HasKey(d, k) == \E i \in 1..Len(d) : d[i][1] = k

Get(d, k) == d[CHOOSE i \in 1..Len(d) : d[i][1] = k][2]

\* d[k] = v: an existing key keeps its place, a new key goes last
Put(d, k, v) ==
    IF HasKey(d, k)
    THEN [i \in 1..Len(d) |-> IF d[i][1] = k THEN <<k, v>> ELSE d[i]]
    ELSE Append(d, <<k, v>>)

\* InsertByCount with the comparison <=: an item goes before the items of
\* equal count already placed, so ties come out reversed
RECURSIVE InsertBeforeEqual(_, _)
InsertBeforeEqual(s, item) ==
    IF s = <<>> THEN <<item>>
    ELSE IF item[2] <= Head(s)[2] THEN <<item>> \o s
    ELSE <<Head(s)>> \o InsertBeforeEqual(Tail(s), item)

\* sorted(items, key=lambda x: x[1]): python's sort is stable, so an item goes
\* after every item already placed whose count is not greater
RECURSIVE InsertByCount(_, _)
InsertByCount(s, item) ==
    IF s = <<>> THEN <<item>>
    ELSE IF item[2] < Head(s)[2] THEN <<item>> \o s
    ELSE <<Head(s)>> \o InsertByCount(Tail(s), item)

RECURSIVE sorted(_)
sorted(items) ==
    IF items = <<>> THEN <<>>
    ELSE InsertByCount(sorted(SubSeq(items, 1, Len(items) - 1)), items[Len(items)])

\* InRange with the upper end of the range left out
InRangeExclusive(items, mn, mx) ==
    LET Keep(x) == x[2] >= mn /\ x[2] < mx
    IN  SelectSeq(items, Keep)

\* filter(lambda x: x[1] >= mincount and x[1] <= maxcount, items)
InRange(items, mn, mx) ==
    LET Keep(x) == x[2] >= mn /\ x[2] <= mx
    IN  SelectSeq(items, Keep)

\* ------------------------------------------------------------- constructor

\* __add_ignore: the set with every token of textdata added
RECURSIVE AddAll(_, _)
AddAll(set, tokens) ==
    IF tokens = <<>> THEN set
    ELSE AddAll(set \cup {Head(tokens)}, Tail(tokens))

add_ignore(ignorewords, textdata) == AddAll(ignorewords, wordfinder(textdata))

\* the loop of __count_occurrences over the tokens, worddict so far
RECURSIVE CountLoop(_, _, _)
CountLoop(worddict, tokens, ignorewords) ==
    IF tokens = <<>> THEN worddict
    ELSE LET word == Head(tokens)
         IN  IF word \in ignorewords
             THEN CountLoop(worddict, Tail(tokens), ignorewords)
             ELSE IF HasKey(worddict, word)
             THEN CountLoop(Put(worddict, word, Get(worddict, word) + 1),
                            Tail(tokens), ignorewords)
             ELSE CountLoop(Put(worddict, word, 1), Tail(tokens), ignorewords)

\* count_occurrences without the test against _ignorewords
count_occurrences_keep_ignored(textdata, ignorewords) ==
    CountLoop(<<>>, wordfinder(textdata), {})

\* __count_occurrences: the worddict appended to _documents
count_occurrences(textdata, ignorewords) ==
    CountLoop(<<>>, wordfinder(textdata), ignorewords)

\* an argument that is None, one string, or a list of strings
None == [kind |-> "None", docs |-> <<>>]
Str(text) == [kind |-> "str", docs |-> <<text>>]
List(texts) == [kind |-> "list", docs |-> texts]

\* __process_check: _documents after it
process_check(documents, checkdocuments, ignorewords) ==
    IF checkdocuments.kind = "None" THEN documents
    ELSE documents \o [i \in 1..Len(checkdocuments.docs) |->
                          count_occurrences(checkdocuments.docs[i], ignorewords)]

\* __process_ignore: _ignorewords after it, or the exception it raises.  The
\* list branch iterates over checkdocuments, a name that is neither a local
\* of the method nor a global of the module: NameError, whatever the list.
process_ignore(ignorewords, ignoredocuments) ==
    IF ignoredocuments.kind = "None"
    THEN [raised |-> "", ignorewords |-> ignorewords]
    ELSE IF ignoredocuments.kind = "str"
    THEN [raised |-> "", ignorewords |-> add_ignore(ignorewords, ignoredocuments.docs[1])]
    ELSE [raised |-> "NameError", ignorewords |-> ignorewords]

\* ---------------------------------------------------------- find_duplicates

\* ScanOthers with foundin += 1 outside the membership test
RECURSIVE ScanOthersCountsAll(_, _, _, _, _)
ScanOthersCountsAll(documents, word, i, foundin, wordcount) ==
    IF i > Len(documents) THEN <<foundin, wordcount>>
    ELSE IF HasKey(documents[i], word)
    THEN ScanOthersCountsAll(documents, word, i + 1, foundin + 1,
                             wordcount + Get(documents[i], word))
    ELSE ScanOthersCountsAll(documents, word, i + 1, foundin + 1, wordcount)

\* the loop over documents 1..n-1 (here 2..n) for one word: <<foundin, wordcount>>
RECURSIVE ScanOthers(_, _, _, _, _)
ScanOthers(documents, word, i, foundin, wordcount) ==
    IF i > Len(documents) THEN <<foundin, wordcount>>
    ELSE IF HasKey(documents[i], word)
    THEN ScanOthers(documents, word, i + 1, foundin + 1, wordcount + Get(documents[i], word))
    ELSE ScanOthers(documents, word, i + 1, foundin, wordcount)

\* ReviewWords with the count of document 0 added before the scan as well as
\* after it
RECURSIVE ReviewWordsFirstTwice(_, _, _, _, _)
ReviewWordsFirstTwice(results, items, documents, mn, mx) ==
    IF items = <<>> THEN results
    ELSE LET word == Head(items)[1]
             firstcount == Head(items)[2]
             scan == ScanOthers(documents, word, 2, 1, firstcount)
             wordcount == scan[2] + firstcount
         IN  IF scan[1] < Len(documents)
             THEN ReviewWordsFirstTwice(results, Tail(items), documents, mn, mx)
             ELSE IF wordcount >= mn /\ wordcount <= mx
             THEN ReviewWordsFirstTwice(Put(results, word, wordcount), Tail(items),
                                        documents, mn, mx)
             ELSE ReviewWordsFirstTwice(results, Tail(items), documents, mn, mx)

\* the loop over the items of document 0 (here 1), results so far
RECURSIVE ReviewWords(_, _, _, _, _)
ReviewWords(results, items, documents, mn, mx) ==
    IF items = <<>> THEN results
    ELSE LET word == Head(items)[1]
             firstcount == Head(items)[2]
             scan == ScanOthers(documents, word, 2, 1, 0)
             wordcount == scan[2] + firstcount
         IN  IF scan[1] < Len(documents)
             THEN ReviewWords(results, Tail(items), documents, mn, mx)
             ELSE IF wordcount >= mn /\ wordcount <= mx
             THEN ReviewWords(Put(results, word, wordcount), Tail(items), documents, mn, mx)
             ELSE ReviewWords(results, Tail(items), documents, mn, mx)

\* find_duplicates returning None for an empty mapping too
find_duplicates_none_when_empty(documents, mn, mx) ==
    LET items == IF Len(documents) = 0 THEN <<>>
                 ELSE IF Len(documents) = 1
                 THEN InRange(sorted(documents[1]), mn, mx)
                 ELSE sorted(ReviewWords(<<>>, documents[1], documents, mn, mx))
    IN  [none |-> items = <<>>, items |-> items, documents |-> documents]

\* find_duplicates storing the sorted dict back into _documents[0] on the
\* path for one document
find_duplicates_sorts_in_place(documents, mn, mx) ==
    IF Len(documents) = 0
    THEN [none |-> TRUE, items |-> <<>>, documents |-> documents]
    ELSE IF Len(documents) = 1
    THEN [none |-> FALSE, items |-> InRange(sorted(documents[1]), mn, mx),
          documents |-> <<sorted(documents[1])>>]
    ELSE [none |-> FALSE,
          items |-> sorted(ReviewWords(<<>>, documents[1], documents, mn, mx)),
          documents |-> documents]

\* find_duplicates: what it returns (none: the None object, else the dict in
\* items) and _documents as the call leaves it
find_duplicates(documents, mn, mx) ==
    IF Len(documents) = 0
    THEN [none |-> TRUE, items |-> <<>>, documents |-> documents]
    ELSE IF Len(documents) = 1
    THEN [none |-> FALSE, items |-> InRange(sorted(documents[1]), mn, mx),
          documents |-> documents]
    ELSE [none |-> FALSE,
          items |-> sorted(ReviewWords(<<>>, documents[1], documents, mn, mx)),
          documents |-> documents]

\* ------------------------------------------------------------ presentation

\* one printed line; a row is f'{key:<32} {value}': the key, the blanks that
\* fill it up to the column width (none for a longer key), a blank, the value
Message(text) == [kind |-> text, word |-> "", pad |-> 0, count |-> 0]

Row(key, value) ==
    [kind |-> "row", word |-> key,
     pad |-> IF Len(key) < ColumnWidth THEN ColumnWidth - Len(key) ELSE 0,
     count |-> value]

\* display_results: the lines it prints, and _documents as it leaves it
display_results(documents, mn, mx) ==
    LET worddict == find_duplicates(documents, mn, mx)
    IN  IF worddict.none
        THEN [stdout |-> <<Message("No results found")>>,
              documents |-> worddict.documents]
        ELSE [stdout |-> [i \in 1..Len(worddict.items) |->
                             Row(worddict.items[i][1], worddict.items[i][2])],
              documents |-> worddict.documents]

\* results.csv: whether this run has written it, its header row, its data rows
NoFile == [written |-> FALSE, titles |-> <<>>, rows |-> <<>>]

\* save_results without the early return: the header row is written even when
\* find_duplicates returned None
save_results_always_writes(documents, mn, mx, csv) ==
    LET worddict == find_duplicates(documents, mn, mx)
    IN  [stdout |-> IF worddict.none
                    THEN <<Message("No results to write to results.csv")>>
                    ELSE <<>>,
         csv |-> [written |-> TRUE, titles |-> <<"Word", "Count">>,
                  rows |-> worddict.items],
         documents |-> worddict.documents]

\* save_results: the lines it prints, results.csv and _documents as it leaves
\* them; open(.., 'w') replaces whatever the file held
save_results(documents, mn, mx, csv) ==
    LET worddict == find_duplicates(documents, mn, mx)
    IN  IF worddict.none
        THEN [stdout |-> <<Message("No results to write to results.csv")>>,
              csv |-> csv, documents |-> worddict.documents]
        ELSE [stdout |-> <<>>,
              csv |-> [written |-> TRUE, titles |-> <<"Word", "Count">>,
                       rows |-> worddict.items],
              documents |-> worddict.documents]

\* ---------------------------------------------------------------- load_file

\* a file of the file system: missing (os.path.isfile is false), unreadable
\* (open raises OSError), ok (open and read succeed)
Missing == [status |-> "missing", content |-> <<>>]
Unreadable == [status |-> "unreadable", content |-> <<>>]
Readable(text) == [status |-> "ok", content |-> text]

\* load_file: the lines it prints and the string it returns, or the exception
\* that leaves it.  When open raises, the except clause prints and executes
\* return '', and the finally clause then runs f.close() with f never
\* assigned: UnboundLocalError replaces the return.
load_file(file) ==
    IF file.status = "missing"
    THEN [raised |-> "", ret |-> <<>>, stdout |-> <<Message("file is missing")>>]
    ELSE IF file.status = "unreadable"
    THEN [raised |-> "UnboundLocalError", ret |-> <<>>,
          stdout |-> <<Message("Unable to read"), Message("OSError")>>]
    ELSE [raised |-> "", ret |-> file.content, stdout |-> <<>>]

\* args.mincount or 1: 0 stands for an option not given (None) or given as 0
OrDefault(arg, default) == IF arg = 0 THEN default ELSE arg

\* ------------------------------------------------------------------- state

VARIABLES
    pc,              \* where the run is: main, new, ready, raised
    args,            \* main: the parsed command line
    fs,              \* main: the files of the file system, by name
    call,            \* the arguments of DocumentAnalyser(...)
    documents,       \* self._documents
    ignorewords,     \* self._ignorewords
    mincount,        \* self._mincount
    maxcount,        \* self._maxcount
    raised,          \* the exception that ended the run, "" for none
    result,          \* what find_duplicates returned last, <<>> before a call
    stdout,          \* the lines the last operation printed
    csv,             \* results.csv
    lastop           \* the last operation run

vars == <<pc, args, fs, call, documents, ignorewords, mincount, maxcount,
          raised, result, stdout, csv, lastop>>

\* the texts of at most n chunks
TextsOf(alphabet, n) == UNION {[1..m -> alphabet] : m \in 0..n}

\* the lists of at most d texts with at most t chunks together
RECURSIVE DocLists(_, _, _)
DocLists(alphabet, d, t) ==
    IF d = 0 THEN {<<>>}
    ELSE {<<>>} \cup
         UNION {{<<x>> \o r : r \in DocLists(alphabet, d - 1, t - Len(x))} :
                    x \in TextsOf(alphabet, t)}

NoArgs == [files |-> <<>>, ignore |-> <<>>, mincount |-> 0, maxcount |-> 0]

\* the fields as lines 43-46 set them, before the arguments are processed
Fresh ==
    /\ documents = <<>>
    /\ ignorewords = {}
    /\ mincount = DefaultMin
    /\ maxcount = DefaultMax
    /\ raised = ""
    /\ result = <<>>
    /\ stdout = <<>>
    /\ csv = NoFile
    /\ lastop = ""

\* a caller constructs the analyser over documents, without ignore documents
InitAggregate ==
    /\ pc = "new"
    /\ args = NoArgs
    /\ fs = [f \in Files |-> Missing]
    /\ \E cd \in {None} \cup {Str(t) : t \in TextsOf(Words, MaxWords)}
                 \cup {List(ds) : ds \in DocLists(Words, MaxDocs, MaxWords)},
          mn \in {DefaultMin, CutCount}, mx \in {CutCount - 1, DefaultMax} :
          call = [checkdocuments |-> cd, ignoredocuments |-> None,
                  mincount |-> mn, maxcount |-> mx]
    /\ Fresh

\* a caller constructs the analyser with ignore documents
InitIgnore ==
    /\ pc = "new"
    /\ args = NoArgs
    /\ fs = [f \in Files |-> Missing]
    /\ \E cd \in {Str(t) : t \in TextsOf(Chunks, MaxIgnoredWords)}
                 \cup {List(ds) : ds \in DocLists(Chunks, MaxIgnoredDocs, MaxIgnoredWords)},
          id \in {Str(t) : t \in TextsOf(Chunks, MaxIgnoreWords)}
                 \cup {List(ds) : ds \in DocLists(Chunks, MaxIgnoreDocs, MaxIgnoreWords)} :
          call = [checkdocuments |-> cd, ignoredocuments |-> id,
                  mincount |-> DefaultMin, maxcount |-> DefaultMax]
    /\ Fresh

\* the program is run from the command line: lines 246-257
InitMain ==
    /\ pc = "main"
    /\ \E files \in UNION {[1..n -> Files] : n \in 1..MaxArgs},
          ignore \in {<<>>} \cup {<<f>> : f \in Files},
          mn \in {0, CutCount}, mx \in {0, CutCount - 1} :
          args = [files |-> files, ignore |-> ignore, mincount |-> mn, maxcount |-> mx]
    /\ fs \in [Files -> {Missing, Unreadable}
                        \cup {Readable(t) : t \in TextsOf(Chunks, MaxFileWords)}]
    /\ call = [checkdocuments |-> List(<<>>), ignoredocuments |-> Str(<<>>),
               mincount |-> 0, maxcount |-> 0]
    /\ Fresh

Init == InitAggregate \/ InitIgnore \/ InitMain

\* ----------------------------------------------------------------- actions

\* main, lines 260-262: one turn of the loop over args.files
LoadCheckFile ==
    /\ pc = "main"
    /\ Len(call.checkdocuments.docs) < Len(args.files)
    /\ LET filename == args.files[Len(call.checkdocuments.docs) + 1]
           loaded == load_file(fs[filename])
       IN  /\ stdout' = loaded.stdout
           /\ IF loaded.raised # ""
              THEN /\ pc' = "raised"
                   /\ raised' = loaded.raised
                   /\ call' = call
              ELSE /\ pc' = pc
                   /\ raised' = raised
                   /\ call' = [call EXCEPT !.checkdocuments =
                                  List(Append(call.checkdocuments.docs, loaded.ret))]
    /\ lastop' = "load_file"
    /\ UNCHANGED <<args, fs, documents, ignorewords, mincount, maxcount, result, csv>>

\* main, lines 265-270: the ignore file and the count options, after the loop
LoadIgnoreFile ==
    /\ pc = "main"
    /\ Len(call.checkdocuments.docs) = Len(args.files)
    /\ LET loaded == IF args.ignore = <<>>
                     THEN [raised |-> "", ret |-> call.ignoredocuments.docs[1],
                           stdout |-> <<>>]
                     ELSE load_file(fs[args.ignore[1]])
       IN  /\ stdout' = loaded.stdout
           /\ IF loaded.raised # ""
              THEN /\ pc' = "raised"
                   /\ raised' = loaded.raised
                   /\ call' = call
              ELSE /\ pc' = "new"
                   /\ raised' = raised
                   /\ call' = [call EXCEPT
                                  !.ignoredocuments = Str(loaded.ret),
                                  !.mincount = OrDefault(args.mincount, DefaultMin),
                                  !.maxcount = OrDefault(args.maxcount, DefaultMax)]
    /\ lastop' = "load_file"
    /\ UNCHANGED <<args, fs, documents, ignorewords, mincount, maxcount, result, csv>>

\* DocumentAnalyser.__init__, lines 43-53
Construct ==
    /\ pc = "new"
    /\ mincount' = call.mincount
    /\ maxcount' = call.maxcount
    /\ LET ignored == process_ignore(ignorewords, call.ignoredocuments)
       IN  /\ ignorewords' = ignored.ignorewords
           /\ raised' = ignored.raised
           /\ IF ignored.raised # ""
              THEN /\ pc' = "raised"
                   /\ documents' = documents
              ELSE /\ pc' = "ready"
                   /\ documents' = process_check(documents, call.checkdocuments,
                                                 ignored.ignorewords)
    /\ lastop' = "__init__"
    /\ stdout' = <<>>
    /\ UNCHANGED <<args, fs, call, result, csv>>

\* a call of find_duplicates on the constructed analyser
FindDuplicates ==
    /\ pc = "ready"
    /\ LET r == find_duplicates(documents, mincount, maxcount)
       IN  /\ result' = <<[none |-> r.none, items |-> r.items]>>
           /\ documents' = r.documents
    /\ lastop' = "find_duplicates"
    /\ stdout' = <<>>
    /\ UNCHANGED <<pc, args, fs, call, ignorewords, mincount, maxcount, raised, csv>>

\* a call of display_results
DisplayResults ==
    /\ pc = "ready"
    /\ LET r == display_results(documents, mincount, maxcount)
       IN  /\ stdout' = r.stdout
           /\ documents' = r.documents
    /\ lastop' = "display_results"
    /\ UNCHANGED <<pc, args, fs, call, ignorewords, mincount, maxcount, raised, result, csv>>

\* a call of save_results
SaveResults ==
    /\ pc = "ready"
    /\ LET r == save_results(documents, mincount, maxcount, csv)
       IN  /\ stdout' = r.stdout
           /\ csv' = r.csv
           /\ documents' = r.documents
    /\ lastop' = "save_results"
    /\ UNCHANGED <<pc, args, fs, call, ignorewords, mincount, maxcount, raised, result>>

Next ==
    \/ LoadCheckFile
    \/ LoadIgnoreFile
    \/ Construct
    \/ FindDuplicates
    \/ DisplayResults
    \/ SaveResults

Spec == Init /\ [][Next]_vars

\* ------------------------------------------------------------------ claims

Ready == pc = "ready"

\* the value the last call of find_duplicates returned
Returned == result # <<>>
Last == result[1]

NDocs == Len(documents)

InAll(w) == \A i \in 1..NDocs : w \in Keys(documents[i])

AllKeys == UNION {Keys(documents[i]) : i \in 1..NDocs}

\* the sum of the counts of w over all the documents (w a key of each)
Total(w) ==
    LET S[i \in 0..NDocs] == IF i = 0 THEN 0 ELSE S[i - 1] + Get(documents[i], w)
    IN  S[NDocs]

IsMapping(items) ==
    \A i, j \in 1..Len(items) : items[i][1] = items[j][1] => i = j

Position(d, k) == CHOOSE i \in 1..Len(d) : d[i][1] = k

\* how often token w occurs among the tokens of a text
Occurrences(text, w) ==
    Cardinality({j \in 1..Len(wordfinder(text)) : wordfinder(text)[j] = w})

TokensOf(text) == {wordfinder(text)[j] : j \in 1..Len(wordfinder(text))}

\* C1: with two or more documents, find_duplicates returns a mapping that
\* holds a token exactly when the token is a key of every document and the
\* sum of its counts over all the documents lies in [mincount, maxcount], and
\* the value stored for it is that sum.
C1_IntersectionSum ==
    (Ready /\ NDocs >= 2 /\ Returned) =>
        /\ ~Last.none
        /\ IsMapping(Last.items)
        /\ \A w \in AllKeys \cup Keys(Last.items) :
              /\ HasKey(Last.items, w) <=>
                     (InAll(w) /\ Total(w) >= mincount /\ Total(w) <= maxcount)
              /\ HasKey(Last.items, w) => Get(Last.items, w) = Total(w)

\* three documents: one token returned with its sum, another of document 1
\* left out because a later document lacks it
C1_Witness ==
    /\ Ready /\ NDocs = 3 /\ Returned
    /\ \E w \in Keys(Last.items) : Get(Last.items, w) > Get(documents[1], w)
    /\ \E w \in Keys(documents[1]) : ~HasKey(Last.items, w) /\ ~HasKey(documents[3], w)

\* C2: with exactly one document, find_duplicates returns exactly the entries
\* of that document whose count lies in [mincount, maxcount], counts unchanged.
C2_SingleDocumentFilter ==
    (Ready /\ NDocs = 1 /\ Returned) =>
        /\ ~Last.none
        /\ IsMapping(Last.items)
        /\ {Last.items[i] : i \in 1..Len(Last.items)} =
               {documents[1][i] : i \in
                   {j \in 1..Len(documents[1]) :
                       documents[1][j][2] >= mincount /\ documents[1][j][2] <= maxcount}}

\* one document, one entry kept on the boundary of the range and one dropped
C2_Witness ==
    /\ Ready /\ NDocs = 1 /\ Returned
    /\ \E i \in 1..Len(Last.items) :
          Last.items[i][2] = mincount \/ Last.items[i][2] = maxcount
    /\ Len(Last.items) < Len(documents[1])

\* C3: after construction the i-th entry of _documents maps each token of the
\* i-th check document that is not in _ignorewords to the number of its
\* occurrences in that document (at least 1) and has no other key; a token of
\* _ignorewords is in no document count and in no find_duplicates result.
C3_DocumentCounts ==
    Ready =>
        /\ NDocs = Len(call.checkdocuments.docs)
        /\ \A i \in 1..NDocs :
              /\ IsMapping(documents[i])
              /\ Keys(documents[i]) = TokensOf(call.checkdocuments.docs[i]) \ ignorewords
              /\ \A w \in Keys(documents[i]) :
                    /\ Get(documents[i], w) = Occurrences(call.checkdocuments.docs[i], w)
                    /\ Get(documents[i], w) >= 1
        /\ \A w \in ignorewords :
              /\ w \notin AllKeys
              /\ Returned => ~HasKey(Last.items, w)

\* a check document holds an ignored token beside a counted one, and
\* find_duplicates has returned a non-empty mapping
C3_Witness ==
    /\ Ready /\ Returned /\ Last.items # <<>>
    /\ \E i \in 1..NDocs :
          /\ TokensOf(call.checkdocuments.docs[i]) \cap ignorewords # {}
          /\ documents[i] # <<>>

\* C4: find_duplicates returns None exactly when there are no documents; with
\* one or more documents it returns a mapping, empty when no token qualifies.
C4_NoneIffNoDocuments ==
    (Ready /\ Returned) =>
        /\ Last.none <=> NDocs = 0
        /\ Last.none => Last.items = <<>>

\* two documents with disjoint, non-empty vocabularies: an empty mapping
C4_Witness ==
    /\ Ready /\ Returned /\ NDocs = 2
    /\ documents[1] # <<>> /\ documents[2] # <<>>
    /\ Keys(documents[1]) \cap Keys(documents[2]) = {}
    /\ ~Last.none /\ Last.items = <<>>

\* no documents, or no word that is common to the documents
NoCommonWord == NDocs = 0 \/ ~ \E w \in AllKeys : InAll(w)

NoResultsFound == <<Message("No results found")>>
NoResultsToWrite == <<Message("No results to write to results.csv")>>

\* C5 as claimed: with no documents or no word common to the documents,
\* save_results prints a message and does not write results.csv at all, and
\* display_results prints only the no-results line.
C5_NoCommonWordSkipsExport ==
    (Ready /\ NoCommonWord) =>
        /\ ~csv.written
        /\ lastop = "save_results" => stdout = NoResultsToWrite
        /\ lastop = "display_results" => stdout = NoResultsFound

\* C5 as amended: with no documents save_results prints a message and does
\* not write results.csv, and display_results prints only the no-results
\* line; with documents that have no word in common save_results prints
\* nothing and writes results.csv with the header row and no data row, and
\* display_results prints nothing.
C5_NoDocumentsSkipsExport ==
    Ready =>
        /\ NDocs = 0 =>
              /\ ~csv.written
              /\ lastop = "save_results" => stdout = NoResultsToWrite
              /\ lastop = "display_results" => stdout = NoResultsFound
        /\ (NDocs >= 1 /\ NoCommonWord) =>
              /\ lastop = "save_results" =>
                     /\ stdout = <<>>
                     /\ csv = [written |-> TRUE, titles |-> <<"Word", "Count">>,
                               rows |-> <<>>]
              /\ lastop = "display_results" => stdout = <<>>

\* save_results has run on an analyser without documents
C5_Witness ==
    /\ Ready /\ NDocs = 0
    /\ lastop = "save_results"
    /\ stdout = NoResultsToWrite

\* the constructor has returned or raised
Constructed == Ready \/ (pc = "raised" /\ lastop = "__init__")

\* C6: the constructor completes for ignore documents given as None, as one
\* string or as a list of strings; _ignorewords is then the union of the
\* tokens of all the ignore texts (empty for None), and _documents holds one
\* entry per check document.
C6_IgnoreListUnion ==
    Constructed =>
        /\ pc = "ready"
        /\ raised = ""
        /\ ignorewords = UNION {TokensOf(call.ignoredocuments.docs[i]) :
                                   i \in 1..Len(call.ignoredocuments.docs)}
        /\ NDocs = Len(call.checkdocuments.docs)

\* C7: load_file lets no exception out: for a file that is missing or that
\* cannot be opened it returns the empty string, and the run goes on to the
\* remaining files.
C7_LoadFileNeverRaises ==
    lastop = "load_file" =>
        /\ pc # "raised"
        /\ raised = ""
        /\ \A i \in 1..Len(call.checkdocuments.docs) :
              fs[args.files[i]].status # "ok" => call.checkdocuments.docs[i] = <<>>

\* C8: the mapping find_duplicates returns is ordered by non-decreasing count,
\* and entries of equal count keep the order of document 1's mapping.
C8_SortedStable ==
    (Ready /\ Returned /\ ~Last.none) =>
        \A i, j \in 1..Len(Last.items) :
            i < j =>
                /\ Last.items[i][2] <= Last.items[j][2]
                /\ Last.items[i][2] = Last.items[j][2] =>
                       Position(documents[1], Last.items[i][1])
                           < Position(documents[1], Last.items[j][1])

\* two or more documents, and the sort has moved a token of document 1
\* behind a later one
C8_Witness ==
    /\ Ready /\ Returned /\ NDocs >= 2 /\ Len(Last.items) = 2
    /\ Position(documents[1], Last.items[1][1]) > Position(documents[1], Last.items[2][1])

\* C9: on a constructed analyser no call changes _documents or _ignorewords,
\* and a further call of find_duplicates returns what the call before returned.
C9_CallsLeaveDocuments ==
    [][Ready =>
          /\ documents' = documents
          /\ ignorewords' = ignorewords
          /\ (Returned /\ Returned') => result' = result]_vars

\* find_duplicates has run after save_results on one document whose mapping
\* is not in count order
C9_Witness ==
    /\ Ready /\ Returned /\ NDocs = 1 /\ csv.written
    /\ lastop = "find_duplicates"
    /\ documents[1] # sorted(documents[1])

AsSet(items) == {items[i] : i \in 1..Len(items)}

\* C10: for two or more documents the tokens and totals find_duplicates
\* returns do not depend on the order of the documents: when a call returns,
\* the call on any permutation of the documents returns the same pairs.
C10_OrderIndependent ==
    (Ready /\ NDocs >= 2 /\ Returned /\ lastop = "find_duplicates") =>
        \A p \in Permutations(1..NDocs) :
            LET permuted == [i \in 1..NDocs |-> documents[p[i]]]
                other == find_duplicates(permuted, mincount, maxcount)
            IN  /\ ~other.none
                /\ IsMapping(other.items)
                /\ AsSet(other.items) = AsSet(Last.items)

\* three documents with different vocabularies, a token of the last absent
\* from the first, and a non-empty result
C10_Witness ==
    /\ Ready /\ NDocs = 3 /\ Returned /\ Last.items # <<>>
    /\ lastop = "find_duplicates"
    /\ Keys(documents[3]) \ Keys(documents[1]) # {}
    /\ documents[1] # documents[2]

====
